---- MODULE Spec2Model ----
(***************************************************************************)
(* Fixture/statistics pipeline of the Premier League dashboard (app.py):   *)
(* http_get with its retry loop, the st.cache_data memoisation of http_get,*)
(* fetch_stats and fetch_matches, the pagination loop of fetch_matches,    *)
(* the frame building of both loaders and build_schedule_with_metrics.     *)
(***************************************************************************)
EXTENDS Integers, Sequences, FiniteSets, TLC

VARIABLES
    http,          \* locals of the running http_get body: i, pc, ret, errors, delays, requests
    hist,          \* responses requests.get has produced for this invocation, in order
    stats_payload, \* payload["data"] of the stats endpoint, as received
    stats_df,      \* the frame fetch_stats returns (a sequence of rows; <<>> is df.empty)
    items,         \* raw match entries accumulated by fetch_matches
    matches_df,    \* the frame fetch_matches returns
    prematch_only, \* the "PreMatch fixtures only" toggle
    schedule,      \* the frame build_schedule_with_metrics returns
    missing_count, \* the "Missing Stats" metric of main
    pc,            \* position of the pipeline under study
    params_next,   \* params["_next"] of fetch_matches (NoCursor: not set)
    http_cache,    \* st.cache_data of http_get for the matches endpoint: cursor -> entry
    fm,            \* observations of the running fetch_matches: calls, phase, sent,
                   \* expect, last, received, stopped
    stats_http,    \* st.cache_data entry of http_get for the stats endpoint
    stats_memo,    \* st.cache_data entry of fetch_stats
    matches_memo,  \* st.cache_data entry of fetch_matches
    last,          \* observations of the latest loader call: fn, prior, prior_val, net,
                   \* failed_before
    failed         \* per http_get key (stats, first matches page): a terminal failure
                   \* happened less than the ttl ago and no flush since

httpVars == <<http, hist>>
frameVars == <<stats_payload, stats_df, items, matches_df, prematch_only, schedule,
               missing_count, pc>>
pageVars == <<params_next, http_cache, fm>>
memoVars == <<stats_http, stats_memo, matches_memo, last, failed>>
vars == <<http, hist, stats_payload, stats_df, items, matches_df, prematch_only,
          schedule, missing_count, pc, params_next, http_cache, fm,
          stats_http, stats_memo, matches_memo, last, failed>>

Min(a, b) == IF a < b THEN a ELSE b

RECURSIVE Pow2(_)
Pow2(n) == IF n = 0 THEN 1 ELSE 2 * Pow2(n - 1)

(***************************************************************************)
(* Payloads: what r.json() yields.  json = FALSE is a body r.json() raises *)
(* on; empty = TRUE is the falsy payload {}.                               *)
(***************************************************************************)
NoCursor == ""
Cursors == {"c1", "c2"}

EmptyPayload == [json |-> TRUE, empty |-> TRUE, data |-> <<>>, next |-> NoCursor]
Malformed == [json |-> FALSE, empty |-> FALSE, data |-> <<>>, next |-> NoCursor]
Page(data, next) == [json |-> TRUE, empty |-> FALSE, data |-> data, next |-> next]

\* A response of requests.get: an HTTP response, or a raised exception
\* (connection error, timeout).
Http(status, body) == [kind |-> "http", status |-> status, body |-> body]
NetworkError == [kind |-> "exc", status |-> 0, body |-> Malformed]

\* range(5)
MaxAttempts == 5
\* min(2 ** i, 8)
BackoffCap == 8

BackoffLinear(i) == Min(2 * i, BackoffCap)
Backoff(i) == Min(Pow2(i), BackoffCap)

RetryStatusNo504(status) == status \in {429, 500, 502, 503}
RetryStatus(status) == status \in {429, 500, 502, 503, 504}

HttpStart == [i |-> 0, pc |-> "try", ret |-> EmptyPayload, errors |-> 0,
              delays |-> <<>>, requests |-> 0]

\* The except branch of the loop body (lines 50-54), entered when requests.get,
\* r.json() of a 200 response, or anything else in the try block raises.
HttpExcept(h) ==
    IF h.i = MaxAttempts - 1
    THEN [h EXCEPT !.pc = "done", !.ret = EmptyPayload, !.errors = @ + 1]
    ELSE [h EXCEPT !.i = @ + 1, !.delays = Append(@, Backoff(h.i))]

\* One iteration of "for i in range(5)" on the response r of requests.get.
HttpStep(h0, r) ==
    LET h == [h0 EXCEPT !.requests = @ + 1] IN
    IF r.kind = "exc" THEN HttpExcept(h)
    ELSE IF r.status = 200
    THEN IF r.body.json
         THEN [h EXCEPT !.pc = "done", !.ret = r.body]
         ELSE HttpExcept(h)
    ELSE IF RetryStatus(r.status)
    THEN \* sleep, continue; after the last iteration the loop falls through
         \* to "return {}" (line 55)
         IF h.i = MaxAttempts - 1
         THEN [h EXCEPT !.i = @ + 1, !.delays = Append(@, Backoff(h.i)),
                        !.pc = "done", !.ret = EmptyPayload]
         ELSE [h EXCEPT !.i = @ + 1, !.delays = Append(@, Backoff(h.i))]
    ELSE [h EXCEPT !.pc = "done", !.ret = EmptyPayload, !.errors = @ + 1]

\* The whole body of http_get on a script of responses.
RECURSIVE HttpRunFrom(_, _)
HttpRunFrom(h, script) ==
    IF h.pc = "done" \/ script = <<>> THEN h
    ELSE HttpRunFrom(HttpStep(h, Head(script)), Tail(script))

HttpRun(script) == HttpRunFrom(HttpStart, script)

(***************************************************************************)
(* SpecHttp: one uncached invocation of http_get against an arbitrary      *)
(* upstream.                                                               *)
(***************************************************************************)
F1 == [matchId |-> 1, matchWeek |-> 1, period |-> "PreMatch",
       kickoff |-> "2025-08-16T20:00:00Z",
       home |-> [none |-> FALSE, chars |-> <<"A">>],
       away |-> [none |-> FALSE, chars |-> <<"b">>]]

ErrorStatuses == {404, 429, 500, 501, 502, 503, 504}
Bodies == {Page(<<F1>>, NoCursor), EmptyPayload, Malformed}
\* The body of a non-200 response only feeds the error message.
Responses ==
    {Http(200, b) : b \in Bodies} \cup {Http(s, Malformed) : s \in ErrorStatuses}
        \cup {NetworkError}

FmStart == [calls |-> 0, phase |-> FALSE, sent |-> NoCursor, expect |-> NoCursor,
            last |-> EmptyPayload, received |-> <<>>, stopped |-> 0]

\* An entry of a st.cache_data table: none (never stored, or cleared), live, or
\* expired; age is the time since it was stored, in seconds.
NoEntry(val) == [state |-> "none", val |-> val, age |-> 0]
LiveEntry(val) == [state |-> "live", val |-> val, age |-> 0]

\* The keys http_get is called with for one season of the matches endpoint.
CursorKeys == {NoCursor} \cup Cursors

HttpCacheEmpty == [k \in CursorKeys |-> NoEntry(EmptyPayload)]

NoFailure == [active |-> FALSE, age |-> 0]
LastNone == [fn |-> "none", prior |-> "none", prior_val |-> <<>>, net |-> 0,
             failed_before |-> FALSE]

MemoIdle ==
    /\ stats_http = NoEntry(EmptyPayload)
    /\ stats_memo = NoEntry(<<>>)
    /\ matches_memo = NoEntry(<<>>)
    /\ last = LastNone
    /\ failed = [stats |-> NoFailure, matches |-> NoFailure]

PagesIdle ==
    /\ params_next = NoCursor
    /\ http_cache = HttpCacheEmpty
    /\ fm = FmStart
    /\ MemoIdle

FramesIdle ==
    /\ PagesIdle
    /\ stats_payload = <<>>
    /\ stats_df = <<>>
    /\ items = <<>>
    /\ matches_df = <<>>
    /\ prematch_only = TRUE
    /\ schedule = <<>>
    /\ missing_count = 0
    /\ pc = "idle"

HttpInit ==
    /\ http = HttpStart
    /\ hist = <<>>
    /\ FramesIdle

HttpAttempt ==
    /\ http.pc = "try"
    /\ \E r \in Responses :
        /\ http' = HttpStep(http, r)
        /\ hist' = Append(hist, r)
    /\ UNCHANGED <<frameVars, pageVars, memoVars>>

HttpNext == HttpAttempt

SpecHttp == HttpInit /\ [][HttpNext]_vars

Last(s) == s[Len(s)]

\* The invocation has returned and its last response was not a parsed 200.
TerminalFailure ==
    /\ http.pc = "done"
    /\ ~(Last(hist).kind = "http" /\ Last(hist).status = 200 /\ Last(hist).body.json)

\* C1: every terminal failure of http_get (non-retryable status, retry budget
\* exhausted on 429/5xx, network failure) returns the empty result and has
\* emitted a user-visible error message; none returns empty silently.
C1_TerminalFailureReported ==
    TerminalFailure => (http.ret = EmptyPayload /\ http.errors >= 1)

\* C2: k in 0..4 retryable responses (429 or a server error http_get retries)
\* followed by a 200 return the parsed body of that 200 after exactly k backoff
\* delays, the i-th (from 0) being min(2^i, 8) seconds: 1, 2, 4, 8.
C2_RetryThenSuccess ==
    \A k \in 0..4 :
        ( /\ http.pc = "done"
          /\ Len(hist) = k + 1
          /\ \A j \in 1..k : /\ hist[j].kind = "http"
                              /\ hist[j].status \in {429, 500, 502, 503, 504}
          /\ hist[k + 1].kind = "http"
          /\ hist[k + 1].status = 200
          /\ hist[k + 1].body.json )
        => ( /\ http.ret = hist[k + 1].body
             /\ http.delays = SubSeq(<<1, 2, 4, 8>>, 1, k)
             /\ http.requests = k + 1
             /\ http.errors = 0 )

\* C2 witness: four retried responses, then the 200 whose body is returned.
C2_Witness ==
    /\ http.pc = "done"
    /\ Len(hist) = 5
    /\ \A j \in 1..4 : hist[j].kind = "http" /\ hist[j].status \in {429, 500, 503}
    /\ hist[5] = Http(200, Page(<<F1>>, NoCursor))
    /\ http.ret = Page(<<F1>>, NoCursor)
    /\ http.delays = <<1, 2, 4, 8>>

\* The j-th response came back on a non-final attempt and the loop went on to
\* another attempt.
RetriedAfter(j) == Len(hist) > j \/ http.pc = "try"

\* C3 as stated: a retry follows every 429 and every status in 500..599 received
\* on a non-final attempt, and an invocation issues at most 5 GET requests.
C3_RetryEvery5xx ==
    /\ \A j \in 1..Len(hist) :
          ( /\ hist[j].kind = "http"
            /\ (hist[j].status = 429 \/ hist[j].status \in 500..599)
            /\ j < 5 ) => RetriedAfter(j)
    /\ http.requests <= 5

\* C3 amended: a retry follows every 429, 500, 502, 503 and 504 received on a
\* non-final attempt (any other non-200 status, 501 included, ends the
\* invocation at once), and an invocation issues at most 5 GET requests
\* whatever the responses and network exceptions.
C3_RetryListedStatuses ==
    /\ \A j \in 1..Len(hist) :
          ( /\ hist[j].kind = "http"
            /\ hist[j].status \in {429, 500, 502, 503, 504}
            /\ j < 5 ) => RetriedAfter(j)
    /\ \A j \in 1..Len(hist) :
          ( /\ hist[j].kind = "http"
            /\ hist[j].status \notin {200, 429, 500, 502, 503, 504} )
          => (http.pc = "done" /\ Len(hist) = j)
    /\ http.requests = Len(hist)
    /\ http.requests <= 5

\* C3 witness: a 504 on the fourth attempt was retried and the fifth, last
\* request has been issued.
C3_Witness ==
    /\ http.pc = "done"
    /\ http.requests = 5
    /\ hist[4] = Http(504, Malformed)
    /\ hist[5].kind = "exc"

(***************************************************************************)
(* norm_name.  A name is None or a string, a string being a sequence of    *)
(* one-character strings.                                                  *)
(***************************************************************************)
NoneName == [none |-> TRUE, chars |-> <<>>]
Str(chars) == [none |-> FALSE, chars |-> chars]

\* str.lower() on the characters team names are drawn from.
Lower(c) ==
    CASE c = "A" -> "a"
      [] c = "B" -> "b"
      [] c = "C" -> "c"
      [] OTHER -> c

\* The characters the pattern [^a-z0-9]+ leaves in place.
KeyChars ==
    {"a", "b", "c", "d", "e", "f", "g", "h", "i", "j", "k", "l", "m", "n", "o", "p",
     "q", "r", "s", "t", "u", "v", "w", "x", "y", "z",
     "0", "1", "2", "3", "4", "5", "6", "7", "8", "9"}

RECURSIVE StripLower(_)
StripLower(cs) ==
    IF cs = <<>> THEN <<>>
    ELSE LET c == Lower(Head(cs)) IN
         IF c \in KeyChars THEN <<c>> \o StripLower(Tail(cs)) ELSE StripLower(Tail(cs))

norm_name(s) == IF s.none \/ s.chars = <<>> THEN <<>> ELSE StripLower(s.chars)

(***************************************************************************)
(* Numbers.  A float that may be NaN is [def, n, d]: the fraction n/d in   *)
(* lowest terms, or NaN when def is FALSE.                                 *)
(***************************************************************************)
NaN == [def |-> FALSE, n |-> 0, d |-> 1]

Abs(x) == IF x < 0 THEN -x ELSE x

RECURSIVE Gcd(_, _)
Gcd(a, b) == IF b = 0 THEN a ELSE Gcd(b, a % b)

Frac(n, d) ==
    LET g == Gcd(Abs(n), d) IN [def |-> TRUE, n |-> n \div g, d |-> d \div g]

\* round(): the integer nearest to n/d (d > 0), halves to the even one.
RoundDiv(n, d) ==
    LET q == n \div d
        r == n - q * d
    IN  IF 2 * r < d THEN q
        ELSE IF 2 * r > d THEN q + 1
        ELSE IF q % 2 = 0 THEN q ELSE q + 1

(***************************************************************************)
(* fetch_stats, lines 73-93: the frame built from payload["data"].         *)
(***************************************************************************)
\* metric = sot / denom if denom > 0 else nan
Metric(sot, cin, cout) ==
    LET denom == sot + cin + cout IN
    IF denom > 0 THEN Frac(sot, denom) ELSE NaN

\* metric_%: None if isna(metric) else round(metric * 100, 2), in hundredths.
MetricPct(metric) ==
    IF metric.def THEN [def |-> TRUE, v |-> RoundDiv(10000 * metric.n, metric.d)]
    ELSE [def |-> FALSE, v |-> 0]

StatsRow(row) ==
    LET metric == Metric(row.sot, row.cin, row.cout) IN
    [team |-> row.name, team_norm |-> norm_name(row.name), metric |-> metric,
     pct |-> MetricPct(metric)]

\* pandas' missing marker: no value norm_name returns is it.
NA == <<"<NA>">>

\* df.dropna(subset=["team_norm"])
DropNaTeamNorm(rows) == SelectSeq(rows, LAMBDA r : r.team_norm # NA)

\* df.drop_duplicates(subset=["team_norm"]): the first row of each key is kept.
RECURSIVE DropDuplicatesFrom(_, _)
DropDuplicatesFrom(rows, seen) ==
    IF rows = <<>> THEN <<>>
    ELSE IF Head(rows).team_norm \in seen
         THEN DropDuplicatesFrom(Tail(rows), seen)
         ELSE <<Head(rows)>>
                \o DropDuplicatesFrom(Tail(rows), seen \cup {Head(rows).team_norm})

DropDuplicates(rows) == DropDuplicatesFrom(rows, {})

StatsFrame(data) ==
    LET rows == [k \in 1..Len(data) |-> StatsRow(data[k])] IN
    IF rows = <<>> THEN <<>> ELSE DropDuplicates(DropNaTeamNorm(rows))

\* fetch_stats on the payload http_get returned.
FetchStatsOf(payload) == IF payload.empty THEN <<>> ELSE StatsFrame(payload.data)

(***************************************************************************)
(* fetch_matches, lines 111-141: the frame built from the accumulated      *)
(* items.                                                                  *)
(***************************************************************************)
NaT == [def |-> FALSE, t |-> 0]

\* pd.to_datetime(..., errors="coerce", utc=True): the instant (epoch seconds)
\* a timestamp string denotes; unparsable text and None (written "None": the
\* entry has no kickoff) become NaT.
ToDatetime(k) ==
    CASE k = "2025-08-16T20:00:00Z" -> [def |-> TRUE, t |-> 1755374400]
      [] k = "2025-08-20T15:00:00Z" -> [def |-> TRUE, t |-> 1755702000]
      [] OTHER -> NaT

MatchRow(m) ==
    [matchId |-> m.matchId, matchWeek |-> m.matchWeek, period |-> m.period,
     kickoff |-> m.kickoff, home |-> m.home, away |-> m.away,
     home_norm |-> norm_name(m.home), away_norm |-> norm_name(m.away),
     kickoff_dt |-> ToDatetime(m.kickoff)]

\* The order of sort_values(["kickoff_dt", "matchWeek", "matchId"],
\* na_position="last"): a sorts strictly before b.
RowBeforeNullsFirst(a, b) ==
    IF a.kickoff_dt.def # b.kickoff_dt.def THEN ~a.kickoff_dt.def
    ELSE IF a.kickoff_dt.def /\ a.kickoff_dt.t # b.kickoff_dt.t
         THEN a.kickoff_dt.t < b.kickoff_dt.t
    ELSE IF a.matchWeek # b.matchWeek THEN a.matchWeek < b.matchWeek
    ELSE a.matchId < b.matchId
RowBefore(a, b) ==
    IF a.kickoff_dt.def # b.kickoff_dt.def THEN a.kickoff_dt.def
    ELSE IF a.kickoff_dt.def /\ a.kickoff_dt.t # b.kickoff_dt.t
         THEN a.kickoff_dt.t < b.kickoff_dt.t
    ELSE IF a.matchWeek # b.matchWeek THEN a.matchWeek < b.matchWeek
    ELSE a.matchId < b.matchId

\* Stable insertion of r into the sorted rows: after every row not after it.
RECURSIVE InsertRow(_, _)
InsertRow(r, sorted) ==
    IF sorted = <<>> THEN <<r>>
    ELSE IF RowBefore(r, Head(sorted)) THEN <<r>> \o sorted
    ELSE <<Head(sorted)>> \o InsertRow(r, Tail(sorted))

RECURSIVE SortRowsFrom(_, _)
SortRowsFrom(rows, sorted) ==
    IF rows = <<>> THEN sorted
    ELSE SortRowsFrom(Tail(rows), InsertRow(Head(rows), sorted))

SortValues(rows) == SortRowsFrom(rows, <<>>)

MatchesFrame(ms) ==
    LET rows == [k \in 1..Len(ms) |-> MatchRow(ms[k])] IN
    IF rows = <<>> THEN <<>> ELSE SortValues(rows)

(***************************************************************************)
(* build_schedule_with_metrics, lines 282-308, and main's missing_count,   *)
(* line 397.                                                               *)
(***************************************************************************)
\* dict(zip(stats_df["team_norm"], stats_df[col])): the last row of a key wins.
HasKey(stats, key) == \E k \in 1..Len(stats) : stats[k].team_norm = key

LastOf(stats, key) ==
    stats[CHOOSE k \in 1..Len(stats) :
            /\ stats[k].team_norm = key
            /\ \A j \in (k + 1)..Len(stats) : stats[j].team_norm # key]

\* out[col].map(pct_by_name): NaN where the key is no key of the mapping.
MapPct(stats, key) ==
    IF HasKey(stats, key) THEN LastOf(stats, key).pct ELSE [def |-> FALSE, v |-> 0]

\* out[col].map(metric_by_name).astype(float)
MapMetric(stats, key) == IF HasKey(stats, key) THEN LastOf(stats, key).metric ELSE NaN

\* ((home_metric * 5.0) + (away_metric * -4.6)).round(3), in thousandths; NaN
\* when either metric is NaN.
XGDiffPlus(hm, am) ==
    IF hm.def /\ am.def
    THEN [def |-> TRUE,
          v |-> RoundDiv(5000 * hm.n * am.d + 4600 * am.n * hm.d, hm.d * am.d)]
    ELSE [def |-> FALSE, v |-> 0]
XGDiff(hm, am) ==
    IF hm.def /\ am.def
    THEN [def |-> TRUE,
          v |-> RoundDiv(5000 * hm.n * am.d - 4600 * am.n * hm.d, hm.d * am.d)]
    ELSE [def |-> FALSE, v |-> 0]

ScheduleRow(stats, m) ==
    LET hm == MapMetric(stats, m.home_norm)
        am == MapMetric(stats, m.away_norm)
    IN  [match |-> m,
         home_pct |-> MapPct(stats, m.home_norm),
         away_pct |-> MapPct(stats, m.away_norm),
         home_metric |-> hm, away_metric |-> am,
         xGDiff |-> XGDiff(hm, am)]

BuildSchedule(stats, matches, prematch) ==
    IF matches = <<>> THEN <<>>
    ELSE LET kept == IF prematch
                     THEN SelectSeq(matches, LAMBDA m : m.period = "PreMatch")
                     ELSE matches
         IN  [k \in 1..Len(kept) |-> ScheduleRow(stats, kept[k])]

\* schedule[["Home Team %", "Away Team %"]].isna().any(axis=1).sum()
MissingCount(sched) ==
    Cardinality({k \in 1..Len(sched) : ~sched[k].home_pct.def \/ ~sched[k].away_pct.def})

(***************************************************************************)
(* Inputs of the frame specifications.                                     *)
(***************************************************************************)
MaxStatRows == 2
MaxFixtures == 2
MaxSortRows == 3

BoundedSeqs(S, n) == UNION {[1..k -> S] : k \in 0..n}

HttpIdle ==
    /\ http = HttpStart
    /\ hist = <<>>
    /\ PagesIdle

(***************************************************************************)
(* SpecStats: fetch_stats on every stats payload of up to MaxStatRows rows.*)
(***************************************************************************)
StatNames == {NoneName, Str(<<>>), Str(<<"-">>), Str(<<"A">>), Str(<<"a", "-">>),
              Str(<<"B", " ", "1">>)}
StatRows ==
    {[name |-> nm, sot |-> sh[1], cin |-> sh[2], cout |-> sh[3]] :
        nm \in StatNames, sh \in {<<1, 1, 0>>, <<0, 0, 0>>}}

StatsInit ==
    /\ HttpIdle
    /\ stats_payload \in BoundedSeqs(StatRows, MaxStatRows)
    /\ stats_df = <<>>
    /\ items = <<>>
    /\ matches_df = <<>>
    /\ prematch_only = TRUE
    /\ schedule = <<>>
    /\ missing_count = 0
    /\ pc = "start"

\* fetch_stats, from the payload http_get returned to the frame it returns.
FetchStats ==
    /\ pc = "start"
    /\ \E payload \in {Page(stats_payload, NoCursor), EmptyPayload} :
        /\ stats_payload' = payload.data
        /\ stats_df' = FetchStatsOf(payload)
    /\ pc' = "done"
    /\ UNCHANGED <<http, hist, items, matches_df, prematch_only, schedule, missing_count,
                   pageVars, memoVars>>

StatsNext == FetchStats

SpecStats == StatsInit /\ [][StatsNext]_vars

\* The rows of the payload that are the first of a non-empty normalized name.
FirstOfKey(i) ==
    /\ norm_name(stats_payload[i].name) # <<>>
    /\ \A j \in 1..(i - 1) :
          norm_name(stats_payload[j].name) # norm_name(stats_payload[i].name)

\* C7: the result of fetch_stats holds no row whose normalized name is empty,
\* holds each team_key once, the row kept being the first that arrived with it,
\* and lists the rows in arrival order.
C7_StatsRowsCleaned ==
    pc = "done" =>
      /\ \A k \in 1..Len(stats_df) : stats_df[k].team_norm # <<>>
      /\ \A k, l \in 1..Len(stats_df) :
            stats_df[k].team_norm = stats_df[l].team_norm => k = l
      /\ Len(stats_df) = Cardinality({i \in 1..Len(stats_payload) : FirstOfKey(i)})
      /\ \E f \in [1..Len(stats_df) -> 1..Len(stats_payload)] :
            /\ \A k \in 1..Len(stats_df) :
                  FirstOfKey(f[k]) /\ stats_df[k].team = stats_payload[f[k]].name
            /\ \A k, l \in 1..Len(stats_df) : k < l => f[k] < f[l]

(***************************************************************************)
(* SpecSort: the frame of fetch_matches on every accumulation of up to     *)
(* MaxSortRows raw matches.                                                *)
(***************************************************************************)
SortKickoffs == {"2025-08-16T20:00:00Z", "2025-08-20T15:00:00Z", "TBC", "None"}
SortMatches ==
    {[matchId |-> id, matchWeek |-> wk, period |-> "PreMatch", kickoff |-> ko,
      home |-> Str(<<"A">>), away |-> Str(<<"B">>)] :
        id \in {1, 2}, wk \in {1, 2}, ko \in SortKickoffs}

SortInit ==
    /\ HttpIdle
    /\ stats_payload = <<>>
    /\ stats_df = <<>>
    /\ items \in BoundedSeqs(SortMatches, MaxSortRows)
    /\ matches_df = <<>>
    /\ prematch_only = TRUE
    /\ schedule = <<>>
    /\ missing_count = 0
    /\ pc = "start"

\* fetch_matches, from the accumulated items to the frame it returns.
BuildMatchesFrame ==
    /\ pc = "start"
    /\ matches_df' = MatchesFrame(items)
    /\ pc' = "done"
    /\ UNCHANGED <<http, hist, stats_payload, stats_df, items, prematch_only, schedule,
                   missing_count, pageVars, memoVars>>

SortNext == BuildMatchesFrame

SpecSort == SortInit /\ [][SortNext]_vars

\* The raw match a row of the frame was built from.
RawOf(r) ==
    [matchId |-> r.matchId, matchWeek |-> r.matchWeek, period |-> r.period,
     kickoff |-> r.kickoff, home |-> r.home, away |-> r.away]

Count(seq, x) == Cardinality({k \in 1..Len(seq) : seq[k] = x})

\* a may stand before b: kickoff ascending with null kickoffs last, then
\* match_week ascending, then match_id ascending.
InOrder(a, b) ==
    \/ a.kickoff_dt.def /\ ~b.kickoff_dt.def
    \/ a.kickoff_dt.def /\ b.kickoff_dt.def /\ a.kickoff_dt.t < b.kickoff_dt.t
    \/ /\ a.kickoff_dt = b.kickoff_dt
       /\ \/ a.matchWeek < b.matchWeek
          \/ a.matchWeek = b.matchWeek /\ a.matchId <= b.matchId

\* C8: the frame fetch_matches returns is a permutation of the accumulated
\* fixtures (none dropped, unparsable kickoffs included), ordered by kickoff
\* ascending with null kickoffs after all others, ties broken by match_week and
\* then match_id ascending.
C8_SortedPermutation ==
    pc = "done" =>
      /\ Len(matches_df) = Len(items)
      /\ \A k \in 1..Len(items) :
            Count([j \in 1..Len(matches_df) |-> RawOf(matches_df[j])], items[k])
                = Count(items, items[k])
      /\ \A k, l \in 1..Len(matches_df) :
            k < l => InOrder(matches_df[k], matches_df[l])

\* C8 witness: three fixtures arrive as null kickoff, later kickoff, earlier
\* kickoff and come out earlier, later, null.
C8_Witness ==
    /\ pc = "done"
    /\ Len(items) = 3
    /\ items[1].kickoff = "TBC"
    /\ items[2].kickoff = "2025-08-20T15:00:00Z"
    /\ items[3].kickoff = "2025-08-16T20:00:00Z"
    /\ matches_df[1].kickoff = "2025-08-16T20:00:00Z"
    /\ matches_df[2].kickoff = "2025-08-20T15:00:00Z"
    /\ matches_df[3].kickoff = "TBC"

(***************************************************************************)
(* SpecSchedule: main's load-and-join (lines 348-398) on every stats       *)
(* payload of up to MaxStatRows rows and every accumulation of up to       *)
(* MaxFixtures fixtures.                                                   *)
(***************************************************************************)
JoinStatRows ==
    {[name |-> nm, sot |-> sh[1], cin |-> sh[2], cout |-> sh[3]] :
        nm \in {Str(<<"A">>), Str(<<"b">>)},
        sh \in {<<1, 2, 0>>, <<1, 0, 1>>, <<0, 0, 0>>}}

\* Payloads in which no team has a defined metric are left out: their metric_%
\* column is all None, of object dtype, and what Series.round does with it
\* depends on the pandas version.
JoinPayloads ==
    {p \in BoundedSeqs(JoinStatRows, MaxStatRows) :
        p = <<>> \/ \E k \in 1..Len(p) : p[k].sot + p[k].cin + p[k].cout > 0}

JoinPairs ==
    {<<Str(<<"a", "-">>), Str(<<"B">>)>>, <<Str(<<"B">>), Str(<<"a", "-">>)>>,
     <<Str(<<"a", "-">>), Str(<<"C">>)>>, <<Str(<<"C">>), Str(<<"B">>)>>}
JoinMatches ==
    {[matchId |-> 1, matchWeek |-> 1, period |-> pd,
      kickoff |-> "2025-08-16T20:00:00Z", home |-> pr[1], away |-> pr[2]] :
        pd \in {"PreMatch", "FullTime"}, pr \in JoinPairs}

ScheduleInit ==
    /\ HttpIdle
    /\ stats_payload \in JoinPayloads
    /\ stats_df = <<>>
    /\ items \in BoundedSeqs(JoinMatches, MaxFixtures)
    /\ matches_df = <<>>
    /\ prematch_only = TRUE
    /\ schedule = <<>>
    /\ missing_count = 0
    /\ pc = "start"

\* fetch_stats and fetch_matches have returned their frames (lines 347-355).
LoadFrames ==
    /\ pc = "start"
    /\ stats_df' = FetchStatsOf(IF stats_payload = <<>> THEN EmptyPayload
                                ELSE Page(stats_payload, NoCursor))
    /\ matches_df' = MatchesFrame(items)
    /\ pc' = "loaded"
    /\ UNCHANGED <<http, hist, stats_payload, items, prematch_only, schedule,
                   missing_count, pageVars, memoVars>>

\* "Failed to fetch team statistics" (lines 350-352).
MainNoStats ==
    /\ pc = "loaded"
    /\ stats_df = <<>>
    /\ pc' = "failed"
    /\ UNCHANGED <<http, hist, stats_payload, stats_df, items, matches_df,
                   prematch_only, schedule, missing_count, pageVars, memoVars>>

\* "Failed to fetch fixtures" (lines 357-359).
MainNoMatches ==
    /\ pc = "loaded"
    /\ stats_df # <<>>
    /\ matches_df = <<>>
    /\ pc' = "failed"
    /\ UNCHANGED <<http, hist, stats_payload, stats_df, items, matches_df,
                   prematch_only, schedule, missing_count, pageVars, memoVars>>

\* The schedule is built and its missing rows counted (lines 375, 397).
MainBuild ==
    /\ pc = "loaded"
    /\ stats_df # <<>>
    /\ matches_df # <<>>
    /\ \E p \in BOOLEAN :
        /\ prematch_only' = p
        /\ schedule' = BuildSchedule(stats_df, matches_df, p)
    /\ missing_count' = MissingCount(schedule')
    /\ pc' = "done"
    /\ UNCHANGED <<http, hist, stats_payload, stats_df, items, matches_df, pageVars, memoVars>>

ScheduleNext == LoadFrames \/ MainNoStats \/ MainNoMatches \/ MainBuild

SpecSchedule == ScheduleInit /\ [][ScheduleNext]_vars

KeyInStats(key) == \E i \in 1..Len(stats_df) : stats_df[i].team_norm = key

KeyHasMetric(key) ==
    \E i \in 1..Len(stats_df) : stats_df[i].team_norm = key /\ stats_df[i].metric.def

\* v thousandths is home*5.0 + away*(-4.6) to the nearest thousandth, home and
\* away being the metrics the stats collection holds for the row's keys.
IsRoundedXG(row, v) ==
    \E i, j \in 1..Len(stats_df) :
        /\ stats_df[i].team_norm = row.match.home_norm
        /\ stats_df[j].team_norm = row.match.away_norm
        /\ stats_df[i].metric.def /\ stats_df[j].metric.def
        /\ LET h == stats_df[i].metric
               a == stats_df[j].metric
           IN  2 * Abs(v * h.d * a.d - (5000 * h.n * a.d - 4600 * a.n * h.d))
                   <= h.d * a.d

HttpGetCachedSkipEmpty(entry, h) ==
    IF entry.state = "live"
    THEN [ret |-> entry.val, entry |-> entry, requests |-> 0, errors |-> 0]
    ELSE [ret |-> h.ret,
          entry |-> IF h.ret.empty THEN NoEntry(EmptyPayload) ELSE LiveEntry(h.ret),
          requests |-> h.requests, errors |-> h.errors]
HttpGetCached(entry, h) ==
    IF entry.state = "live"
    THEN [ret |-> entry.val, entry |-> entry, requests |-> 0, errors |-> 0]
    ELSE [ret |-> h.ret, entry |-> LiveEntry(h.ret),
          requests |-> h.requests, errors |-> h.errors]

\* A script is one the body of http_get consumes to its end.
Complete(script) ==
    /\ HttpRun(script).pc = "done"
    /\ HttpRun(script).requests = Len(script)

RECURSIVE Repeat(_, _)
Repeat(x, n) == IF n = 0 THEN <<>> ELSE <<x>> \o Repeat(x, n - 1)

\* Upstream behaviours during one http_get: the payload at once or after one
\* retried 503, a non-retryable status, five server errors, five network errors.
ScriptsOf(payloads) ==
    {<<Http(200, p)>> : p \in payloads}
        \cup {<<Http(503, Malformed), Http(200, p)>> : p \in payloads}
        \cup {<<Http(404, Malformed)>>, Repeat(Http(500, Malformed), MaxAttempts),
              Repeat(NetworkError, MaxAttempts)}

\* What the body of http_get can do on those behaviours.
RunsOf(payloads) == {HttpRun(script) : script \in {sc \in ScriptsOf(payloads) : Complete(sc)}}

(***************************************************************************)
(* SpecMatches: one invocation of fetch_matches, page by page (lines       *)
(* 98-109), then its frame (lines 111-141).                                *)
(***************************************************************************)
MaxItems == 3
MaxCallsCounted == 3

F2 == [matchId |-> 2, matchWeek |-> 1, period |-> "FullTime",
       kickoff |-> "TBC", home |-> Str(<<"B">>), away |-> Str(<<"C">>)]

PageData == {<<>>, <<F1>>, <<F2, F1>>}
MatchPayloads ==
    {EmptyPayload} \cup {Page(d, n) : d \in PageData, n \in CursorKeys}

MatchRuns == RunsOf(MatchPayloads)

\* items.extend(payload.get("data", []) or [])
ExtendItems(its, payload) == its \o payload.data

\* params["_next"] = nxt
SetNextKeepOld(cursor, nxt) == cursor
SetNext(cursor, nxt) == nxt

\* The loop stops on this payload: "if not payload: break", "if not nxt: break".
Stops(payload) == payload.empty \/ payload.next = NoCursor

\* One iteration of "while True" (lines 102-109): http_get through its cache
\* entry for the current params, h being what its body does if it runs.
PageIter(entry, cursor, its, h) ==
    LET got == HttpGetCached(entry, h)
        payload == got.ret
    IN  [entry |-> got.entry,
         payload |-> payload,
         items |-> IF payload.empty THEN its ELSE ExtendItems(its, payload),
         stop |-> Stops(payload),
         cursor |-> IF Stops(payload) THEN cursor ELSE SetNext(cursor, payload.next),
         requests |-> got.requests]

MatchesInit ==
    /\ http = HttpStart
    /\ hist = <<>>
    /\ stats_payload = <<>>
    /\ stats_df = <<>>
    /\ items = <<>>
    /\ matches_df = <<>>
    /\ prematch_only = TRUE
    /\ schedule = <<>>
    /\ missing_count = 0
    /\ pc = "loop"
    /\ params_next = NoCursor
    /\ http_cache = HttpCacheEmpty
    /\ fm = FmStart
    /\ MemoIdle

\* One iteration of "while True" and, when it breaks, the rest of fetch_matches.
MatchesPage ==
    /\ pc = "loop"
    /\ \E h \in MatchRuns :
        LET it == PageIter(http_cache[params_next], params_next, items, h) IN
            /\ Len(items) + Len(it.payload.data) <= MaxItems
            /\ http_cache' = [http_cache EXCEPT ![params_next] = it.entry]
            /\ items' = it.items
            /\ params_next' = it.cursor
            /\ pc' = IF it.stop THEN "done" ELSE "loop"
            /\ matches_df' = IF it.stop THEN MatchesFrame(it.items) ELSE matches_df
            /\ fm' = [calls |-> Min(fm.calls + 1, MaxCallsCounted),
                      phase |-> ~fm.phase,
                      sent |-> params_next,
                      expect |-> fm.last.next,
                      last |-> it.payload,
                      received |-> fm.received \o it.payload.data,
                      stopped |-> IF fm.stopped # 0 THEN fm.stopped
                                  ELSE IF it.payload.empty \/ it.payload.next = NoCursor
                                  THEN Min(fm.calls + 1, MaxCallsCounted) ELSE 0]
    /\ UNCHANGED <<http, hist, stats_payload, stats_df, prematch_only, schedule,
                   missing_count, memoVars>>

\* The ttl of an http_get entry elapses while the loop runs.
HttpEntryExpires ==
    /\ pc = "loop"
    /\ \E k \in CursorKeys :
        /\ http_cache[k].state = "live"
        /\ http_cache' = [http_cache EXCEPT ![k].state = "expired"]
    /\ UNCHANGED <<http, hist, frameVars, params_next, fm, memoVars>>

MatchesNext == MatchesPage \/ HttpEntryExpires

SpecMatches == MatchesInit /\ [][MatchesNext]_vars

\* The loop keeps taking iterations for as long as it has not returned.
LiveMatches == MatchesInit /\ [][MatchesNext]_vars /\ WF_vars(MatchesPage)

\* C4: fetch_matches requests pages one after another, each request after the
\* first carrying the _next cursor of the previous response; it stops at the
\* first response that is empty or has no _next cursor; the fixtures it returns
\* are exactly the items of all pages received up to and including the stopping
\* response (an empty one contributes none, earlier pages are kept); a first
\* response without _next results in exactly one request.
C4_PaginationFollowsCursor ==
    /\ fm.calls >= 1 => fm.sent = fm.expect
    /\ pc = "done" <=> (fm.calls >= 1 /\ (fm.last.empty \/ fm.last.next = NoCursor))
    /\ pc = "done" <=> fm.stopped # 0
    /\ pc = "done" =>
          /\ fm.stopped = fm.calls
          /\ Len(matches_df) = Len(fm.received)
          /\ \A k \in 1..Len(fm.received) :
                Count([j \in 1..Len(matches_df) |-> RawOf(matches_df[j])], fm.received[k])
                    = Count(fm.received, fm.received[k])
    /\ pc = "loop" => items = fm.received

\* C4 witness: two pages were followed by cursor, the third response was empty,
\* and the fixtures of the first two pages are returned.
C4_Witness ==
    /\ pc = "done"
    /\ fm.calls = 3
    /\ fm.sent # NoCursor
    /\ fm.last = EmptyPayload
    /\ fm.received = <<F1, F2, F1>>
    /\ Len(matches_df) = 3

\* The model's cap on the accumulated items leaves the loop no iteration to take.
ItemsBoundReached ==
    /\ pc = "loop"
    /\ http_cache[params_next].state = "live"
    /\ Len(items) + Len(http_cache[params_next].val.data) > MaxItems

\* C9: every invocation of fetch_matches terminates, whatever the upstream does,
\* a server that returns a _next cursor on every page or repeats a cursor
\* included.
C9_FetchMatchesTerminates == <>(pc = "done" \/ ItemsBoundReached)

(***************************************************************************)
(* SpecCache: reruns of main's loading (lines 341-359) over time, with the *)
(* three st.cache_data tables: http_get (ttl 3600), fetch_stats (ttl 3600) *)
(* and fetch_matches (ttl 1800).                                           *)
(***************************************************************************)
HttpTTL == 3600
StatsTTL == 3600
MatchesTTL == 1800
\* The step of the clock, in seconds.
TickSeconds == 900

ExpiredEntry(val) == [state |-> "expired", val |-> val, age |-> 0]

\* An entry after TickSeconds more: it is live for as long as its age is below
\* the ttl.
Aged(entry, ttl, blank) ==
    IF entry.state # "live" THEN entry
    ELSE IF entry.age + TickSeconds >= ttl THEN ExpiredEntry(blank)
    ELSE [entry EXCEPT !.age = @ + TickSeconds]

\* The body of http_get ended in a terminal failure: an error was shown, or the
\* loop ran out of attempts.
Failed(h) == h.ret.empty /\ (h.errors > 0 \/ h.i = MaxAttempts)

S1 == [name |-> Str(<<"A">>), sot |-> 1, cin |-> 1, cout |-> 0]

StatsRuns ==
    {HttpRun(<<Http(200, Page(<<S1>>, NoCursor))>>),
     HttpRun(<<Http(503, Malformed), Http(200, Page(<<S1>>, NoCursor))>>),
     HttpRun(<<Http(404, Malformed)>>),
     HttpRun(Repeat(Http(500, Malformed), MaxAttempts))}

CacheRuns ==
    {HttpRun(<<Http(200, Page(<<F1>>, NoCursor))>>),
     HttpRun(<<Http(200, Page(<<F2>>, NoCursor))>>),
     HttpRun(<<Http(200, Page(<<F1>>, "c1"))>>),
     HttpRun(Repeat(NetworkError, MaxAttempts))}

\* Upstream behaviours during one fetch_matches: what the body of http_get does
\* for each cursor.  The second page is the last one.
CacheServers ==
    {srv \in [CursorKeys -> CacheRuns] :
        srv["c1"].ret.next = NoCursor /\ srv["c2"] = srv["c1"]}

\* The loop of fetch_matches run to its break; fuel bounds the iterations, and
\* the loop has not returned when it runs out.
RECURSIVE Paginate(_, _, _, _, _, _)
Paginate(cache, srv, cursor, its, net, fuel) ==
    LET it == PageIter(cache[cursor], cursor, its, srv[cursor])
        cache2 == [cache EXCEPT ![cursor] = it.entry]
    IN  IF it.stop
        THEN [cache |-> cache2, items |-> it.items, net |-> net + it.requests,
              returned |-> TRUE]
        ELSE IF fuel = 0
        THEN [cache |-> cache2, items |-> it.items, net |-> net + it.requests,
              returned |-> FALSE]
        ELSE Paginate(cache2, srv, it.cursor, it.items, net + it.requests, fuel - 1)

CacheInit ==
    /\ http = HttpStart
    /\ hist = <<>>
    /\ stats_payload = <<>>
    /\ stats_df = <<>>
    /\ items = <<>>
    /\ matches_df = <<>>
    /\ prematch_only = TRUE
    /\ schedule = <<>>
    /\ missing_count = 0
    /\ pc = "main"
    /\ PagesIdle

\* stats_df = fetch_stats(season, limit=40), and main's return when it is empty.
CallFetchStats ==
    /\ pc = "main"
    /\ \E h \in StatsRuns :
        LET hit == stats_memo.state = "live"
            got == HttpGetCached(stats_http, h)
            result == IF hit THEN stats_memo.val ELSE FetchStatsOf(got.ret)
            ran == ~hit /\ stats_http.state # "live"
        IN  /\ stats_http' = IF hit THEN stats_http ELSE got.entry
            /\ stats_memo' = IF hit THEN stats_memo ELSE LiveEntry(result)
            /\ stats_df' = result
            /\ last' = [fn |-> "fetch_stats", prior |-> stats_memo.state,
                        prior_val |-> stats_memo.val,
                        net |-> IF hit THEN 0 ELSE got.requests,
                        failed_before |-> failed.stats.active]
            /\ failed' = IF ran
                         THEN [failed EXCEPT !.stats = [active |-> Failed(h), age |-> 0]]
                         ELSE failed
            /\ pc' = IF result = <<>> THEN "main" ELSE "fixtures"
    /\ UNCHANGED <<http, hist, stats_payload, items, matches_df, prematch_only, schedule,
                   missing_count, pageVars, matches_memo>>

\* matches_df = fetch_matches(season, page_size=50); main goes on to render.
CallFetchMatches ==
    /\ pc = "fixtures"
    /\ \E srv \in CacheServers :
        LET hit == matches_memo.state = "live"
            run == Paginate(http_cache, srv, NoCursor, <<>>, 0, Cardinality(CursorKeys))
            result == IF hit THEN matches_memo.val ELSE MatchesFrame(run.items)
            ran == ~hit /\ http_cache[NoCursor].state # "live"
        IN  /\ hit \/ run.returned
            /\ http_cache' = IF hit THEN http_cache ELSE run.cache
            /\ matches_memo' = IF hit THEN matches_memo ELSE LiveEntry(result)
            /\ matches_df' = result
            /\ last' = [fn |-> "fetch_matches", prior |-> matches_memo.state,
                        prior_val |-> matches_memo.val,
                        net |-> IF hit THEN 0 ELSE run.net,
                        failed_before |-> failed.matches.active]
            /\ failed' = IF ran
                         THEN [failed EXCEPT
                                 !.matches = [active |-> Failed(srv[NoCursor]), age |-> 0]]
                         ELSE failed
            /\ pc' = "main"
    /\ UNCHANGED <<http, hist, stats_payload, stats_df, items, prematch_only, schedule,
                   missing_count, params_next, fm, stats_http, stats_memo>>

AgedFailure(f) ==
    IF f.active /\ f.age + TickSeconds < HttpTTL THEN [f EXCEPT !.age = @ + TickSeconds]
    ELSE NoFailure

\* TickSeconds pass.
Tick ==
    /\ http_cache' = [k \in CursorKeys |-> Aged(http_cache[k], HttpTTL, EmptyPayload)]
    /\ stats_http' = Aged(stats_http, HttpTTL, EmptyPayload)
    /\ stats_memo' = Aged(stats_memo, StatsTTL, <<>>)
    /\ matches_memo' = Aged(matches_memo, MatchesTTL, <<>>)
    /\ failed' = [stats |-> AgedFailure(failed.stats),
                  matches |-> AgedFailure(failed.matches)]
    /\ UNCHANGED <<http, hist, frameVars, params_next, fm, last>>

\* "Refresh Data": st.cache_data.clear() and st.rerun() (lines 342-344).
Refresh ==
    /\ pc = "main"
    /\ http_cache' = HttpCacheEmpty
    /\ stats_http' = NoEntry(EmptyPayload)
    /\ stats_memo' = NoEntry(<<>>)
    /\ matches_memo' = NoEntry(<<>>)
    /\ failed' = [stats |-> NoFailure, matches |-> NoFailure]
    /\ UNCHANGED <<http, hist, frameVars, params_next, fm, last>>

CacheNext == CallFetchStats \/ CallFetchMatches \/ Tick \/ Refresh

SpecCache == CacheInit /\ [][CacheNext]_vars

\* The frame the latest loader call returned.
LastResult == IF last.fn = "fetch_stats" THEN stats_df ELSE matches_df

\* C5: for each loader (fetch_stats: 1 hour, fetch_matches: 30 minutes) a second
\* call with the same arguments inside the window returns the cached result
\* without any network request, and the first call after the window has elapsed
\* issues a new network request.
C5_LoaderWindows ==
    last.fn \in {"fetch_stats", "fetch_matches"} =>
      /\ last.prior = "live" => (last.net = 0 /\ LastResult = last.prior_val)
      /\ last.prior = "expired" => last.net >= 1

\* C10: an empty result of a terminal failure of http_get is memoized like a
\* success: until the 1-hour ttl has elapsed or the cache is flushed, a call with
\* the same (url, params) issues no network request and yields empty, and so
\* does fetch_stats, whose empty result derives from it.
C10_FailureMemoized ==
    (last.fn \in {"fetch_stats", "fetch_matches"} /\ last.failed_before) =>
        (last.net = 0 /\ LastResult = <<>>)

\* C10 witness: fetch_matches has been run again, its own 30-minute entry having
\* expired, less than an hour after http_get failed on its first page.
C10_Witness ==
    /\ last.fn = "fetch_matches"
    /\ last.failed_before
    /\ last.prior = "expired"
    /\ last.net = 0
    /\ matches_df = <<>>

====
